---------------------------- MODULE Spec2Model ----------------------------
(***************************************************************************)
(* machine-hub: telemetry collection and retention pipeline.               *)
(*                                                                         *)
(*   - the two Glances normalizers (pull path and push path),              *)
(*   - the poll scheduler (GlancesPoller) and its admin endpoints,         *)
(*   - the push ingestion handler (POST /webhook/glances),                 *)
(*   - the retention service (CleanupService) and the crud it calls.       *)
(*                                                                         *)
(* Python values are tagged records; a dict is a function from its keys.   *)
(***************************************************************************)
EXTENDS Integers, Sequences, FiniteSets, TLC

(***************************************************************************)
(* Python / JSON values                                                    *)
(***************************************************************************)
PyNone == [t |-> "none"]
PyInt(n) == [t |-> "int", n |-> n]
\* a float num/den
PyFloat(num, den) == [t |-> "float", num |-> num, den |-> den]
\* the float x / (1024**3), kept symbolic: 2^30 times a denominator leaves
\* the integers TLC computes with
PyGiB(x) == [t |-> "gib", of |-> x]
PyStr(s) == [t |-> "str", s |-> s]
PyList(q) == [t |-> "list", items |-> q]
PyDict(f) == [t |-> "dict", kv |-> f]
EmptyDict == PyDict(<<>>)

IsDict(v) == v.t = "dict"
IsList(v) == v.t = "list"
IsInt(v) == v.t = "int"
IsStr(v) == v.t = "str"
IsNumber(v) == v.t \in {"int", "float", "gib"}

\* k in d
Has(d, k) == k \in DOMAIN d.kv
\* d.get(k, default)
GetOr(d, k, default) == IF Has(d, k) THEN d.kv[k] ELSE default
\* d.get(k)
Get(d, k) == GetOr(d, k, PyNone)

\* bool(v)
Truthy(v) ==
  CASE v.t = "none" -> FALSE
    [] v.t = "int" -> v.n # 0
    [] v.t = "float" -> v.num # 0
    [] v.t = "gib" -> TRUE
    [] v.t = "str" -> v.s # ""
    [] v.t = "list" -> Len(v.items) > 0
    [] v.t = "dict" -> DOMAIN v.kv # {}

\* len(v) of a list or a dict
PyLen(v) == IF IsList(v) THEN Len(v.items) ELSE Cardinality(DOMAIN v.kv)

\* an exception raised in place of a value
Raise(exc) == [t |-> "raise", exc |-> exc]
IsRaise(v) == v.t = "raise"

\* The strings of the model that Python's float() and int() read as a
\* number, with the number; every other string of the model is not numeric.
NumericStr(s) == s \in {"0", "50", "87"}
StrToInt(s) == CASE s = "0" -> 0 [] s = "50" -> 50 [] s = "87" -> 87

\* x / (1024**3)
TrueDivGiB(v) == IF IsNumber(v) THEN PyGiB(v) ELSE Raise("TypeError")

\* float(x)
ToFloat(v) ==
  CASE v.t = "int" -> PyFloat(v.n, 1)
    [] v.t \in {"float", "gib"} -> v
    [] v.t = "str" -> IF NumericStr(v.s) THEN PyFloat(StrToInt(v.s), 1)
                      ELSE Raise("ValueError")
    [] OTHER -> Raise("TypeError")

\* float(x) / (1024**3)
FloatDivGiB(v) == IF IsRaise(ToFloat(v)) THEN ToFloat(v) ELSE PyGiB(ToFloat(v))

\* int(x), for x that is not a str (the else branch of the uptime parse)
ToInt(v) ==
  CASE v.t = "int" -> v
    [] v.t = "float" -> PyInt(IF v.num >= 0 THEN v.num \div v.den
                                            ELSE -((-v.num) \div v.den))
    [] OTHER -> Raise("TypeError")

\* str(x), for the values a battery status takes in the model
ToStr(v) ==
  CASE v.t = "str" -> v
    [] v.t = "none" -> PyStr("None")
    [] v.t = "int" -> PyStr(IF v.n = 0 THEN "0" ELSE IF v.n = 50 THEN "50"
                            ELSE IF v.n = 87 THEN "87" ELSE "<int>")
    [] OTHER -> PyStr("<repr>")

(***************************************************************************)
(* re.search over the characters of a string                               *)
(***************************************************************************)
\* The characters of the strings the model gives as an uptime.
Chars(s) ==
  CASE s = "30 days, 17:37:37" ->
         <<"3","0"," ","d","a","y","s",","," ","1","7",":","3","7",":","3","7">>
    [] s = "1 day, 0:05:09" ->
         <<"1"," ","d","a","y",","," ","0",":","0","5",":","0","9">>
    [] s = "3:04:05" -> <<"3",":","0","4",":","0","5">>
    [] s = "2 days" -> <<"2"," ","d","a","y","s">>
    [] s = "12:30" -> <<"1","2",":","3","0">>
    [] s = "7days 1:1:1" -> <<"7","d","a","y","s"," ","1",":","1",":","1">>
    [] s = "Not available" ->
         <<"N","o","t"," ","a","v","a","i","l","a","b","l","e">>
    [] s = "50" -> <<"5","0">>
    [] s = "" -> <<>>
    [] OTHER -> <<"?">>

IsDigit(c) == c \in {"0","1","2","3","4","5","6","7","8","9"}
IsSpace(c) == c \in {" ", "\t", "\n"}
DigitVal(c) ==
  CASE c = "0" -> 0 [] c = "1" -> 1 [] c = "2" -> 2 [] c = "3" -> 3
    [] c = "4" -> 4 [] c = "5" -> 5 [] c = "6" -> 6 [] c = "7" -> 7
    [] c = "8" -> 8 [] c = "9" -> 9

\* the first position at or after i that holds no digit (Len(q)+1 at the end)
RECURSIVE DigitRunEnd(_, _)
DigitRunEnd(q, i) ==
  IF i >= 1 /\ i <= Len(q) /\ IsDigit(q[i]) THEN DigitRunEnd(q, i + 1) ELSE i

\* the first position at or after i that holds no whitespace
RECURSIVE SpaceRunEnd(_, _)
SpaceRunEnd(q, i) ==
  IF i <= Len(q) /\ IsSpace(q[i]) THEN SpaceRunEnd(q, i + 1) ELSE i

\* int() of the digits q[i..j-1]
RECURSIVE DigitsToInt(_, _, _)
DigitsToInt(q, i, j) ==
  IF j <= i THEN 0 ELSE DigitsToInt(q, i, j - 1) * 10 + DigitVal(q[j - 1])

CharAt(q, i) == IF i >= 1 /\ i <= Len(q) THEN q[i] ELSE ""

\* (\d+)\s+days? matches at position i: \d+ and \s+ are greedy and what
\* follows each cannot be a character of the run, so each run is taken whole
DaysMatchAt(q, i) ==
  /\ IsDigit(CharAt(q, i))
  /\ LET j == DigitRunEnd(q, i)
         k == SpaceRunEnd(q, j)
     IN /\ k > j
        /\ CharAt(q, k) = "d" /\ CharAt(q, k + 1) = "a" /\ CharAt(q, k + 2) = "y"

\* (\d+):(\d+):(\d+) matches at position i
TimeMatchAt(q, i) ==
  /\ IsDigit(CharAt(q, i))
  /\ LET j == DigitRunEnd(q, i)
     IN /\ CharAt(q, j) = ":"
        /\ IsDigit(CharAt(q, j + 1))
        /\ LET k == DigitRunEnd(q, j + 1)
           IN CharAt(q, k) = ":" /\ IsDigit(CharAt(q, k + 1))

\* re.search: the leftmost position where the pattern matches, 0 for None
DaysSearch(q) ==
  IF \E i \in 1..Len(q) : DaysMatchAt(q, i)
  THEN CHOOSE i \in 1..Len(q) :
         DaysMatchAt(q, i) /\ \A h \in 1..(i - 1) : ~DaysMatchAt(q, h)
  ELSE 0

TimeSearch(q) ==
  IF \E i \in 1..Len(q) : TimeMatchAt(q, i)
  THEN CHOOSE i \in 1..Len(q) :
         TimeMatchAt(q, i) /\ \A h \in 1..(i - 1) : ~TimeMatchAt(q, h)
  ELSE 0

\* an uptime that leaves the days out
UptimeOfString_NoDays(s) ==
  LET q == Chars(s)
      m == TimeSearch(q)
      j == DigitRunEnd(q, m)
      k == DigitRunEnd(q, j + 1)
      l == DigitRunEnd(q, k + 1)
  IN IF m # 0
     THEN DigitsToInt(q, m, j) * 3600 + DigitsToInt(q, j + 1, k) * 60
            + DigitsToInt(q, k + 1, l)
     ELSE 0

\* days * 86400 + hours * 3600 + minutes * 60 + seconds of an uptime string
UptimeOfString(s) ==
  LET q == Chars(s)
      d == DaysSearch(q)
      m == TimeSearch(q)
      days == IF d # 0 THEN DigitsToInt(q, d, DigitRunEnd(q, d)) ELSE 0
      j == DigitRunEnd(q, m)
      k == DigitRunEnd(q, j + 1)
      l == DigitRunEnd(q, k + 1)
      hours == IF m # 0 THEN DigitsToInt(q, m, j) ELSE 0
      minutes == IF m # 0 THEN DigitsToInt(q, j + 1, k) ELSE 0
      seconds == IF m # 0 THEN DigitsToInt(q, k + 1, l) ELSE 0
  IN days * 86400 + hours * 3600 + minutes * 60 + seconds

(***************************************************************************)
(* The normalizers.  A result is [t |-> "ok", parsed |-> the dict] or      *)
(* Raise(exc) when the function raises.  parsed.get(k) of a key the        *)
(* function never set is None, so the three keys set only when present     *)
(* (sensors_data, alert_data, network_data) are None when they are unset.  *)
(***************************************************************************)
DataSystem(data) == Has(data, "system") /\ IsDict(data.kv["system"])

\* the hostname: data["system"].get("hostname", "unknown") when system is a
\* dict, data.get("hostname", "unknown") otherwise
ParsedHostname(data) ==
  IF DataSystem(data)
  THEN GetOr(data.kv["system"], "hostname", PyStr("unknown"))
  ELSE GetOr(data, "hostname", PyStr("unknown"))

\* cpu_count
ParsedCpuCount(data) ==
  IF Has(data, "cpu") /\ IsDict(data.kv["cpu"])
  THEN LET cpu_data == data.kv["cpu"]
       IN IF Has(cpu_data, "cpucore") /\ (IsList(cpu_data.kv["cpucore"])
                                          \/ IsDict(cpu_data.kv["cpucore"]))
          THEN PyInt(PyLen(cpu_data.kv["cpucore"]))
          ELSE IF Has(cpu_data, "cpucore") /\ IsInt(cpu_data.kv["cpucore"])
          THEN cpu_data.kv["cpucore"]
          ELSE PyNone
  ELSE PyNone

\* section[key] when data[name] is a dict, None otherwise
SectionGet(data, name, key) ==
  IF Has(data, name) /\ IsDict(data.kv[name]) THEN Get(data.kv[name], key)
  ELSE PyNone

\* mem.used and mem.total: mem_data[key] / (1024**3) when the key is there
ParsedMemGiB(data, key) ==
  IF Has(data, "mem") /\ IsDict(data.kv["mem"]) /\ Has(data.kv["mem"], key)
  THEN TrueDivGiB(data.kv["mem"].kv[key])
  ELSE PyNone

\* memswap.used, .total and .free: float(swap_data[key]) / (1024**3)
ParsedSwapGiB(data, key) ==
  IF Has(data, "memswap") /\ IsDict(data.kv["memswap"])
     /\ Has(data.kv["memswap"], key)
  THEN FloatDivGiB(data.kv["memswap"].kv[key])
  ELSE PyNone

\* The root-filesystem scan of the pull path: fs.get("mnt_point") on every
\* entry up to the first whose mnt_point is "/"; an entry that is not a dict
\* has no get.  None when the scan ends, Raise when it raises.
RECURSIVE FsScanFrom(_, _)
FsScanFrom(items, i) ==
  IF i > Len(items) THEN PyNone
  ELSE IF ~IsDict(items[i]) THEN Raise("AttributeError")
  ELSE IF Get(items[i], "mnt_point") = PyStr("/") THEN PyNone
  ELSE FsScanFrom(items, i + 1)

FsScan(data) ==
  IF Has(data, "fs") /\ IsList(data.kv["fs"]) /\ Len(data.kv["fs"].items) > 0
  THEN FsScanFrom(data.kv["fs"].items, 1)
  ELSE PyNone

\* uptime
ParsedUptime(data) ==
  LET uptime_raw == GetOr(data, "uptime", PyInt(0))
  IN IF IsStr(uptime_raw) THEN PyInt(UptimeOfString(uptime_raw.s))
     ELSE IF Truthy(uptime_raw) THEN ToInt(uptime_raw) ELSE PyInt(0)

\* The battery scan: every dict of the sensors list labelled "Battery"
\* assigns battery_percent (when it has a value) and battery_status (when it
\* has a status); the loop has no break, a later entry assigns again.
\* acc is [percent, status], or Raise once float() raised.
RECURSIVE BatteryScanFrom(_, _, _)
BatteryScanFrom(items, i, acc) ==
  IF i > Len(items) THEN acc
  ELSE LET sensor == items[i]
       IN IF IsDict(sensor) /\ Get(sensor, "label") = PyStr("Battery")
          THEN LET pct == IF Has(sensor, "value")
                          THEN ToFloat(sensor.kv["value"]) ELSE acc.percent
                   st == IF Has(sensor, "status")
                         THEN ToStr(sensor.kv["status"]) ELSE acc.status
               IN IF IsRaise(pct) THEN pct
                  ELSE BatteryScanFrom(items, i + 1,
                                       [t |-> "battery", percent |-> pct,
                                        status |-> st])
          ELSE BatteryScanFrom(items, i + 1, acc)

BatteryScan(data) ==
  LET none == [t |-> "battery", percent |-> PyNone, status |-> PyNone]
  IN IF Has(data, "sensors") /\ IsList(data.kv["sensors"])
     THEN BatteryScanFrom(data.kv["sensors"].items, 1, none)
     ELSE none

\* The statements of the function that can raise, in the order the function
\* runs them; fsScan says whether the root-filesystem scan is part of it.
RaisingSteps(data, fsScan) ==
  << ParsedMemGiB(data, "used"), ParsedMemGiB(data, "total"),
     ParsedSwapGiB(data, "used"), ParsedSwapGiB(data, "total"),
     ParsedSwapGiB(data, "free"),
     IF fsScan THEN FsScan(data) ELSE PyNone,
     ParsedUptime(data), BatteryScan(data) >>

FirstRaise(steps) ==
  IF \E i \in 1..Len(steps) : IsRaise(steps[i])
  THEN steps[CHOOSE i \in 1..Len(steps) :
               IsRaise(steps[i]) /\ \A h \in 1..(i - 1) : ~IsRaise(steps[h])]
  ELSE PyNone

\* the dict the function returns when no statement raised
ParsedDict(data) ==
  [ hostname |-> ParsedHostname(data),
    cpu_percent |-> SectionGet(data, "cpu", "total"),
    cpu_user |-> SectionGet(data, "cpu", "user"),
    cpu_system |-> SectionGet(data, "cpu", "system"),
    cpu_iowait |-> SectionGet(data, "cpu", "iowait"),
    cpu_count |-> ParsedCpuCount(data),
    memory_percent |-> SectionGet(data, "mem", "percent"),
    memory_used |-> ParsedMemGiB(data, "used"),
    memory_total |-> ParsedMemGiB(data, "total"),
    swap_percent |-> SectionGet(data, "memswap", "percent"),
    swap_used |-> ParsedSwapGiB(data, "used"),
    swap_total |-> ParsedSwapGiB(data, "total"),
    swap_free |-> ParsedSwapGiB(data, "free"),
    uptime |-> ParsedUptime(data),
    load_avg |-> SectionGet(data, "load", "min1"),
    os_name |-> SectionGet(data, "system", "os_name"),
    os_version |-> SectionGet(data, "system", "os_version"),
    battery_percent |-> BatteryScan(data).percent,
    battery_status |-> BatteryScan(data).status,
    fs_data |-> IF Has(data, "fs") /\ IsList(data.kv["fs"])
                THEN data.kv["fs"] ELSE PyNone,
    sensors_data |-> Get(data, "sensors"),
    alert_data |-> Get(data, "alert"),
    network_data |-> IF Has(data, "network") /\ IsList(data.kv["network"])
                     THEN data.kv["network"] ELSE PyNone ]

\* the function's result: what its first raising statement raised, if any
ParseResult(raised, data) ==
  IF IsRaise(raised) THEN raised ELSE [t |-> "ok", parsed |-> ParsedDict(data)]

ParseWith(data, fsScan) ==
  ParseResult(FirstRaise(RaisingSteps(data, fsScan)), data)

\* GlancesPoller.parse_glances_data (pull path)
GlancesPoller_parse_glances_data(data) == ParseWith(data, TRUE)

\* webhook_router.parse_glances_data (push path): no root-filesystem scan
parse_glances_data(data) == ParseWith(data, FALSE)

(***************************************************************************)
(* State                                                                   *)
(***************************************************************************)
VARIABLES
  machines,        \* the machines table: id -> row
  snapshots,       \* the system_snapshots table: a set of rows
  nextSnapshotId,  \* the next autoincrement id of system_snapshots
  now,             \* the clock (datetime.utcnow())
  app,             \* the application: "init", "up" after startup_event
  running,         \* glances_poller.running
  loops,           \* the start_polling() tasks: task -> where it stands
  ticks,           \* per start_polling() task, its poll_all_machines call
  lastAdmin,       \* the last answer of a polling admin endpoint
  pushCount,       \* how many POST /webhook/glances requests were handled
  lastPush,        \* the last such request and its answer
  pushPending,     \* a push that resolved its machine and has not written yet
  cleanup_old_records_days,  \* CleanupService.cleanup_old_records_days
  lastCleanup,     \* the last retention cycle: when, what each policy deleted,
                   \* whether it followed a complete cycle with no write since
  written,         \* a snapshot was written since the last complete cycle
  is_running,      \* CleanupService.is_running
  task,            \* CleanupService.task: where the _cleanup_loop() task stands
  lastManual,      \* the last run_cleanup_now() call and what it returned
  normIn,          \* the payload last given to the normalizers
  normPull,        \* what GlancesPoller.parse_glances_data made of it
  normPush         \* what webhook_router.parse_glances_data made of it

storeVars == <<machines, snapshots, nextSnapshotId>>
pollVars == <<running, loops, ticks, lastAdmin>>
pushVars == <<pushCount, lastPush, pushPending>>
serviceVars == <<is_running, task, lastManual>>
cleanupVars == <<cleanup_old_records_days, lastCleanup, written, is_running,
                 task, lastManual>>
normVars == <<normIn, normPull, normPush>>
vars == <<machines, snapshots, nextSnapshotId, now, app, running, loops, ticks,
          lastAdmin, pushCount, lastPush, pushPending,
          cleanup_old_records_days, lastCleanup, written, is_running, task,
          lastManual,
          normIn, normPull, normPush>>

(***************************************************************************)
(* The payloads given to the normalizers: every payload holds one key, or  *)
(* two keys of the core set, and a value of every JSON type under it.      *)
(***************************************************************************)
SampleValues ==
  { PyNone, PyInt(0), PyInt(5), PyFloat(5, 2), PyStr("abc"), PyStr("50"),
    PyList(<<>>), PyList(<<PyInt(1)>>), EmptyDict, PyDict([a |-> PyInt(1)]) }

UptimeStrings ==
  { PyStr("30 days, 17:37:37"), PyStr("1 day, 0:05:09"), PyStr("3:04:05"),
    PyStr("2 days"), PyStr("12:30"), PyStr("7days 1:1:1"),
    PyStr("Not available"), PyStr("") }

SensorEntries ==
  { PyStr("x"),
    PyDict([label |-> PyStr("CPU"), value |-> PyInt(40)]),
    PyDict([label |-> PyStr("Battery"), value |-> PyInt(87),
            status |-> PyStr("Charging")]),
    PyDict([label |-> PyStr("Battery"), value |-> PyStr("50"),
            status |-> PyStr("Discharging")]),
    PyDict([label |-> PyStr("Battery"), value |-> PyStr("n/a")]),
    PyDict([label |-> PyStr("Battery"), value |-> PyNone]),
    PyDict([label |-> PyStr("Battery"), status |-> PyNone]) }

FsEntries ==
  { PyDict([mnt_point |-> PyStr("/")]), PyDict([mnt_point |-> PyStr("/home")]),
    PyStr("bad"), PyNone }

ListsOf(S) == {PyList(<<>>)} \cup {PyList(<<a>>) : a \in S}
                \cup {PyList(<<a, b>>) : a \in S, b \in S}

SectionsOf(keys) == {PyDict(k :> v) : k \in keys, v \in SampleValues}

KeyValues(k) ==
  CASE k = "system" ->
         SampleValues \cup
         { PyDict([hostname |-> PyStr("host1")]),
           PyDict([os_name |-> PyStr("Linux")]),
           PyDict([hostname |-> PyStr("host1"), os_name |-> PyStr("Linux"),
                   os_version |-> PyStr("6.1")]) }
    [] k = "hostname" -> {PyStr("host2"), PyNone, PyInt(5)}
    [] k = "cpu" -> {PyStr("abc")} \cup SectionsOf({"total", "cpucore"})
    [] k = "mem" ->
         {PyStr("abc")} \cup SectionsOf({"percent", "used", "total"})
    [] k = "memswap" ->
         {PyList(<<>>)} \cup SectionsOf({"percent", "used", "total", "free"})
    [] k = "uptime" -> SampleValues \cup UptimeStrings \cup {PyInt(-5)}
    [] k = "load" -> {PyInt(5)} \cup SectionsOf({"min1"})
    [] k = "sensors" ->
         {PyStr("Not available"), PyNone} \cup ListsOf(SensorEntries)
    [] k = "alert" ->
         {PyStr("Not available"), PyList(<<>>), PyList(<<EmptyDict>>)}
    [] k = "network" -> {PyStr("Not available"), PyList(<<EmptyDict>>)}
    [] k = "fs" -> {PyStr("abc")} \cup ListsOf(FsEntries)

PayloadKeys ==
  << "system", "hostname", "cpu", "mem", "memswap", "uptime", "load",
     "sensors", "alert", "network", "fs" >>

\* the values of the second key of a two-key payload
CoreValues(k) ==
  CASE k = "system" -> {PyStr("abc"), PyDict([hostname |-> PyStr("host1")])}
    [] k = "hostname" -> {PyStr("host2")}
    [] k = "mem" -> {PyDict([used |-> PyInt(5)]), PyDict([used |-> PyStr("abc")])}
    [] k = "uptime" -> {PyInt(5), PyList(<<PyInt(1)>>)}
    [] k = "sensors" -> {PyStr("Not available")}
    [] k = "fs" -> {PyList(<<PyStr("bad")>>)}
    [] OTHER -> {}

\* the one-key payloads of key PayloadKeys[i]
OneKeyPayloads(i) ==
  {PyDict(PayloadKeys[i] :> v) : v \in KeyValues(PayloadKeys[i])}

\* the two-key payloads whose first key is PayloadKeys[i]
TwoKeyPayloads(i) ==
  UNION { {PyDict(PayloadKeys[i] :> v @@ PayloadKeys[j] :> w) :
             v \in KeyValues(PayloadKeys[i]), w \in CoreValues(PayloadKeys[j])} :
          j \in (1..Len(PayloadKeys)) \ {i} }

NormPayloads ==
  {EmptyDict}
  \cup UNION {OneKeyPayloads(i) : i \in 1..Len(PayloadKeys)}
  \cup UNION {TwoKeyPayloads(i) : i \in 1..Len(PayloadKeys)}

(***************************************************************************)
(* The machines the registry holds and what an address or a hostname finds *)
(***************************************************************************)
NumMachines == 2
MachineIds == 1..NumMachines

\* machines.last_seen is nullable: no time yet
Never == 0

IpOf(m) == CASE m = 1 -> "10.0.0.1" [] m = 2 -> "10.0.0.2" [] OTHER -> "10.0.0.3"
HostOf(m) == CASE m = 1 -> "host1" [] m = 2 -> "host2" [] OTHER -> "host3"

\* A row of machines, as create_machine leaves it: hostname and ip_address
\* given, no OS fields, active, never seen.
NewMachine(m) ==
  [ ip_address |-> IpOf(m), hostname |-> PyStr(HostOf(m)), os_name |-> PyNone,
    os_version |-> PyNone, is_active |-> TRUE, last_seen |-> Never ]

\* crud.get_machine_by_ip: the ids first() chooses among
MachinesByIp(ip) ==
  {m \in DOMAIN machines : PyStr(machines[m].ip_address) = ip}
\* crud.get_machine_by_hostname: the ids first() chooses among
MachinesByHostname(h) == {m \in DOMAIN machines : machines[m].hostname = h}
\* crud.get_active_machines
ActiveMachines == {m \in DOMAIN machines : machines[m].is_active}

(***************************************************************************)
(* Initial state: the module-level objects as the imports construct them   *)
(***************************************************************************)
\* how many start_polling() tasks exist at once
MaxLoops == 2
\* how many push requests are handled
MaxPushes == 2

\* the retention service: the cap on a machine's snapshots, how many
\* snapshots the ingestion paths write, how far the clock runs and the
\* longest age cutoff, in days
MaxRecordsPerMachine == 2
MaxWrites == 4
MaxTime == 4
MaxDays == 2
MaxManualRuns == 1
\* cleanup_old_records_days of a service without an age cutoff (None)
NoAgeCutoff == 0

\* no poll_all_machines call yet.  A tick keeps its record after its end
\* (session "closed") until the task's next tick; stopped notes that
\* stop_polling ran while the tick was in flight.
NoTick == [session |-> "closed", tasks |-> <<>>, stopped |-> FALSE]

NoPush == [status |-> 0]
\* no push between its resolution and its writes
NoPending == [t |-> 0]
\* no retention cycle yet
NoCleanup == [ran |-> FALSE, ok |-> FALSE, at |-> 0, by_count |-> {},
              by_age |-> {}, repeat |-> FALSE]
\* self.task = None
NoTask == [at |-> "none", delay |-> 0]
\* no run_cleanup_now() call yet
NoManual == [n |-> 0]

InitBase ==
  /\ machines = [m \in MachineIds |-> NewMachine(m)]
  /\ snapshots = {}
  /\ nextSnapshotId = 1
  /\ now = 1
  /\ app = "init"
  /\ running = FALSE
  /\ loops = [l \in 1..MaxLoops |-> "none"]
  /\ ticks = [l \in 1..MaxLoops |-> NoTick]
  /\ lastAdmin = "none"
  /\ pushCount = 0
  /\ lastPush = NoPush
  /\ pushPending = NoPending
  /\ lastCleanup = NoCleanup
  /\ written = FALSE
  /\ is_running = FALSE
  /\ task = NoTask
  /\ lastManual = NoManual
  /\ normIn = PyNone
  /\ normPull = PyNone
  /\ normPush = PyNone

\* get_cleanup_service() constructs the service without an age cutoff
Init ==
  /\ InitBase
  /\ cleanup_old_records_days = NoAgeCutoff

(***************************************************************************)
(* The normalizers applied to a payload                                    *)
(***************************************************************************)
Normalize(data) ==
  /\ normIn = PyNone
  /\ normIn' = data
  /\ normPull' = GlancesPoller_parse_glances_data(data)
  /\ normPush' = parse_glances_data(data)
  /\ UNCHANGED <<storeVars, now, app, pollVars, pushVars, cleanupVars>>

NextNorm == \E data \in NormPayloads : Normalize(data)

SpecNorm == Init /\ [][NextNorm]_vars

\* C7: the normalizers are total: whatever the input map, neither raises.
\* (Stated as the claim states it; the code raises on wrong-typed values.)
C7_NormalizerTotal == ~IsRaise(normPull) /\ ~IsRaise(normPush)

\* the uptime the payload carries, None when it has no such key
UptimeGiven == IF IsDict(normIn) THEN Get(normIn, "uptime") ELSE PyNone

\* what the normalizers returned, for those that returned
Normalized == {r \in {normPull, normPush} : r.t = "ok"}

\* the seconds of the uptime strings, worked out by hand:
\* "30 days, 17:37:37" is 30*86400 + 17*3600 + 37*60 + 37; "7days 1:1:1" has
\* no space before "days" and counts its time only; "12:30" has no H:MM:SS
SecondsOf(s) ==
  CASE s = "30 days, 17:37:37" -> 2655457
    [] s = "1 day, 0:05:09" -> 86709
    [] s = "3:04:05" -> 11045
    [] s = "2 days" -> 172800
    [] s = "7days 1:1:1" -> 3661
    [] OTHER -> 0

\* the cases of the uptime: a string, an integer, a missing key
UptimeCases(r) ==
  /\ r.parsed.uptime.t = "int"
  /\ IsStr(UptimeGiven) => r.parsed.uptime.n = SecondsOf(UptimeGiven.s)
  /\ IsInt(UptimeGiven) => r.parsed.uptime.n = UptimeGiven.n
  /\ (IsDict(normIn) /\ ~Has(normIn, "uptime")) => r.parsed.uptime.n = 0

\* C19 as stated: the normalized uptime is a non-negative integer; a string
\* gives the seconds of its "<N> day(s)" and "H:MM:SS" parts, an integer n
\* gives n, a missing key gives 0.
\* (An integer below zero gives itself, which is not non-negative.)
C19_UptimeNonNegative ==
  \A r \in Normalized :
    IsDict(normIn) => (UptimeCases(r) /\ r.parsed.uptime.n >= 0)

\* C19, amended: the normalized uptime is an integer; a string gives the
\* seconds of its "<N> day(s)" and "H:MM:SS" parts, an integer n gives n, a
\* missing key gives 0; it is non-negative unless the payload's uptime is a
\* number below zero.
C19_UptimeSeconds ==
  \A r \in Normalized :
    IsDict(normIn)
      => /\ UptimeCases(r)
         /\ r.parsed.uptime.n < 0
              => (IsInt(UptimeGiven) /\ UptimeGiven.n < 0)

\* both normalizers were given "30 days, 17:37:37" and returned 2655457
C19_Witness ==
  /\ UptimeGiven = PyStr("30 days, 17:37:37")
  /\ Normalized = {normPull, normPush}
  /\ normPull.parsed.uptime = PyInt(2655457)
  /\ normPush.parsed.uptime = PyInt(2655457)

\* the sensors the payload carries, None when it has no such key
SensorsGiven == IF IsDict(normIn) THEN Get(normIn, "sensors") ELSE PyNone

\* the positions of the entries labelled "Battery" in a sensors list
BatteryEntries(items) ==
  {i \in 1..Len(items) :
     IsDict(items[i]) /\ Get(items[i], "label") = PyStr("Battery")}

\* the first of them
FirstBattery(items) ==
  items[CHOOSE i \in BatteryEntries(items) :
          \A j \in BatteryEntries(items) : i <= j]

\* C20: the battery fields come from the first sensors entry labelled
\* "Battery" and from no later one; with no such entry, or with sensors not
\* a list, both stay unset.
\* (Stated as the claim states it; the scan has no break and a later
\* "Battery" entry assigns again.)
C20_FirstBatteryWins ==
  \A r \in Normalized :
    IsDict(normIn) =>
      IF IsList(SensorsGiven) /\ BatteryEntries(SensorsGiven.items) # {}
      THEN /\ r.parsed.battery_percent
                = IF Has(FirstBattery(SensorsGiven.items), "value")
                  THEN ToFloat(FirstBattery(SensorsGiven.items).kv["value"])
                  ELSE PyNone
           /\ r.parsed.battery_status
                = IF Has(FirstBattery(SensorsGiven.items), "status")
                  THEN ToStr(FirstBattery(SensorsGiven.items).kv["status"])
                  ELSE PyNone
      ELSE /\ r.parsed.battery_percent = PyNone
           /\ r.parsed.battery_status = PyNone

(***************************************************************************)
(* The store as one Session sees it                                        *)
(*                                                                         *)
(* A Session is "ok" until one of its commits fails; after that every use  *)
(* of it raises until rollback(), which neither ingestion path calls.      *)
(***************************************************************************)
Store(ms, ss, nid, session) ==
  [machines |-> ms, snapshots |-> ss, nextSnapshotId |-> nid,
   session |-> session]

\* the tables as they stand, seen through a Session in state session
StoreNow(session) == Store(machines, snapshots, nextSnapshotId, session)

\* Optional[float] of SystemSnapshotBase
FloatOk(v) ==
  \/ v.t \in {"none", "int", "float", "gib"}
  \/ v.t = "str" /\ NumericStr(v.s)
\* Optional[int] of SystemSnapshotBase
IntOk(v) ==
  \/ v.t \in {"none", "int"}
  \/ v.t = "float" /\ v.den = 1
  \/ v.t = "str" /\ NumericStr(v.s)
\* Optional[str] of SystemSnapshotBase
StrOk(v) == v.t \in {"none", "str"}
\* Optional[List[Dict]] of SystemSnapshotBase
BlobOk(v) ==
  \/ v.t = "none"
  \/ v.t = "list" /\ \A i \in 1..Len(v.items) : IsDict(v.items[i])

\* SystemSnapshotCreate(**fields) validates
SystemSnapshotCreate(p) ==
  /\ \A f \in {"cpu_percent", "memory_percent", "memory_used", "memory_total",
               "load_avg", "cpu_user", "cpu_system", "cpu_iowait",
               "swap_percent", "swap_used", "swap_total", "swap_free",
               "battery_percent"} : FloatOk(p[f])
  /\ \A f \in {"uptime", "cpu_count"} : IntOk(p[f])
  /\ StrOk(p.battery_status)
  /\ \A f \in {"sensors_data", "alert_data", "network_data", "fs_data"} :
       BlobOk(p[f])

\* the attributes of models.SystemSnapshot: its columns and its relationship
SnapshotColumns ==
  { "id", "machine_id", "cpu_percent", "memory_percent", "memory_used",
    "memory_total", "uptime", "load_avg", "cpu_user", "cpu_system",
    "cpu_iowait", "cpu_count", "swap_percent", "swap_used", "swap_total",
    "swap_free", "battery_percent", "battery_status", "sensors_data",
    "alert_data", "network_data", "fs_data", "created_at", "machine" }

\* the keys of SystemSnapshotCreate(...).dict(): every field of the schema,
\* among them source, which has a default ("api") when the caller passes none
SnapshotSchemaFields ==
  { "machine_id", "cpu_percent", "memory_percent", "memory_used",
    "memory_total", "uptime", "load_avg", "cpu_user", "cpu_system",
    "cpu_iowait", "cpu_count", "swap_percent", "swap_used", "swap_total",
    "swap_free", "battery_percent", "battery_status", "sensors_data",
    "alert_data", "network_data", "fs_data", "source" }

\* models.SystemSnapshot(**kwargs): the declarative constructor raises
\* TypeError on a keyword that is not an attribute of the class
ConstructorAccepts(kwargs) == kwargs \subseteq SnapshotColumns

\* crud.update_machine_last_seen on a working Session
update_machine_last_seen(db, m) ==
  IF m \in DOMAIN db.machines
  THEN [db EXCEPT !.machines[m].last_seen = now]
  ELSE db

\* a row of system_snapshots: the table has no source column
SnapshotRow(id, m) == [id |-> id, machine_id |-> m, created_at |-> now]

\* crud.create_system_snapshot on a working Session, once
\* models.SystemSnapshot(**snapshot.dict()) has been constructed: the row is
\* added with the next id and the current time, then last_seen is refreshed
create_system_snapshot(db, m) ==
  update_machine_last_seen(
    [db EXCEPT !.snapshots = @ \cup {SnapshotRow(db.nextSnapshotId, m)},
               !.nextSnapshotId = @ + 1],
    m)

\* crud.create_system_snapshot raises before it touches the Session: the
\* dict of the schema holds a key the model's constructor does not take
SnapshotRaises == ~ConstructorAccepts(SnapshotSchemaFields)

\* "if new and (not stored or stored != new)": the value the column gets
WriteOnChange(stored, new) ==
  IF Truthy(new) /\ (~Truthy(stored) \/ stored # new) THEN new ELSE stored

\* a String column takes what the driver can bind: not a mapping
ColumnOk(v) == v.t # "dict"

\* the payload keys kept as blobs and the snapshot fields that hold them
BlobKeys == {"sensors", "alert", "network"}
BlobField(k) == CASE k = "sensors" -> "sensors_data"
                  [] k = "alert" -> "alert_data"
                  [] k = "network" -> "network_data"

\* C21: a sensors, alert or network value the payload carries is what the
\* normalizer hands on for the snapshot, whatever its type, and the snapshot
\* schema accepts it.
\* (Stated as the claim states it; the normalizers drop a network value that
\* is not a list, and the schema takes lists of dicts only.)
C21_BlobsVerbatim ==
  \A r \in Normalized :
    IsDict(normIn) =>
      \A k \in BlobKeys :
        Has(normIn, k) => /\ r.parsed[BlobField(k)] = normIn.kv[k]
                          /\ BlobOk(r.parsed[BlobField(k)])

\* C22: the normalized hostname is system.hostname when system is an object
\* that carries one, else the root-level hostname when the payload has one,
\* else "unknown".
\* (Stated as the claim states it; with system an object without a hostname
\* the root-level hostname is not read.)
C22_HostnameFallback ==
  \A r \in Normalized :
    IsDict(normIn) =>
      r.parsed.hostname
        = IF DataSystem(normIn) /\ Has(normIn.kv["system"], "hostname")
          THEN normIn.kv["system"].kv["hostname"]
          ELSE IF Has(normIn, "hostname") THEN normIn.kv["hostname"]
          ELSE PyStr("unknown")

\* C29: the two normalizers are equivalent: on every payload both return
\* the same fields, or both raise.
\* (Stated as the claim states it; the pull-path normalizer alone scans the
\* fs list for the root filesystem and raises on an entry that is no dict.)
C29_NormalizersEquivalent ==
  \/ IsRaise(normPull) /\ IsRaise(normPush)
  \/ normPull = normPush

(***************************************************************************)
(* The pull path: one target of a tick                                     *)
(***************************************************************************)
\* what a target's fetch comes to when it brings no decoded body
FetchFailures == {"timeout", "conn_error", "http_error", "bad_json"}

\* the bodies a target m answers 200 with
PollBody(kind, m) ==
  CASE kind = "good" ->
         PyDict([system |-> PyDict([hostname |-> PyStr(HostOf(m)),
                                    os_name |-> PyStr("Linux")]),
                 mem |-> PyDict([used |-> PyInt(5)])])
    [] kind = "badmem" ->
         PyDict([system |-> PyDict([hostname |-> PyStr(HostOf(m))]),
                 mem |-> PyDict([used |-> PyStr("abc")])])
    [] kind = "badsensors" ->
         PyDict([system |-> PyDict([hostname |-> PyStr(HostOf(m))]),
                 sensors |-> PyStr("Not available")])
    [] kind = "bados" ->
         PyDict([system |-> PyDict([hostname |-> PyStr(HostOf(m)),
                                    os_name |-> PyDict([a |-> PyInt(1)])])])
    [] kind = "nohost" ->
         PyDict([mem |-> PyDict([used |-> PyInt(5)])])
BodyKinds == {"good", "badmem", "badsensors", "bados", "nohost"}
PollResponses == FetchFailures \cup BodyKinds

\* process_glances_data from the parsed dict on: the write-on-change of the
\* machine row (new), its commit, the validation and the snapshot
StoreParsed(db, m, parsed, new) ==
  IF new # db.machines[m] /\ ~(ColumnOk(new.os_name) /\ ColumnOk(new.os_version)
                                /\ ColumnOk(new.hostname))
  THEN [db EXCEPT !.session = "failed"]
  ELSE IF ~SystemSnapshotCreate(parsed) \/ SnapshotRaises
  THEN [db EXCEPT !.machines[m] = new]
  ELSE create_system_snapshot([db EXCEPT !.machines[m] = new], m)

\* the row of machines after "if new and (not stored or stored != new)" on
\* os_name, os_version and hostname
Reconciled(row, parsed) ==
  [row EXCEPT !.os_name = WriteOnChange(@, parsed.os_name),
              !.os_version = WriteOnChange(@, parsed.os_version),
              !.hostname = WriteOnChange(@, parsed.hostname)]

\* process_glances_data once parse_glances_data returned or raised r
ProcessParsed(db, m, r) ==
  IF IsRaise(r) \/ db.session = "failed" \/ m \notin DOMAIN db.machines
  THEN db
  ELSE StoreParsed(db, m, r.parsed, Reconciled(db.machines[m], r.parsed))

\* GlancesPoller.process_glances_data: every exception is caught and logged
process_glances_data(db, m, data) ==
  ProcessParsed(db, m, GlancesPoller_parse_glances_data(data))

\* poll_machine after process_glances_data: last_seen is refreshed through
\* the same Session
RefreshLastSeen(db, m) ==
  IF db.session = "failed" THEN db ELSE update_machine_last_seen(db, m)

\* GlancesPoller.poll_machine once its fetch came to resp
poll_machine(db, m, resp) ==
  IF resp \in FetchFailures THEN db
  ELSE RefreshLastSeen(process_glances_data(db, m, PollBody(resp, m)), m)

(***************************************************************************)
(* The poll scheduler                                                      *)
(*                                                                         *)
(* A start_polling() task is "created" until the event loop first runs it, *)
(* in "tick" while its poll_all_machines() awaits gather(), in "sleep"     *)
(* while it awaits asyncio.sleep(poll_interval), and gone ("none") once    *)
(* its while saw running false.  Between two awaits a coroutine runs       *)
(* alone, so each action below is one stretch of code between awaits.      *)
(***************************************************************************)
\* poll_all_machines up to its gather(): the Session is opened, the active
\* machines are read and one poll_machine task is created for each
OpenTick(dbUp) ==
  IF dbUp /\ ActiveMachines # {}
  THEN [session |-> "ok", tasks |-> [m \in ActiveMachines |-> "pending"],
        stopped |-> FALSE]
  ELSE NoTick

\* a loop that begins its next tick without reading the flag
Iterate_IgnoresFlag(l, lp, run, dbUp) ==
  /\ ticks' = [ticks EXCEPT ![l] = OpenTick(dbUp)]
  /\ loops' = [lp EXCEPT ![l] = IF OpenTick(dbUp) = NoTick
                                 THEN "sleep" ELSE "tick"]

\* one pass of "while self.running:" of task l, from the task table lp
Iterate(l, lp, run, dbUp) ==
  IF ~run
  THEN /\ loops' = [lp EXCEPT ![l] = "none"]
       /\ UNCHANGED ticks
  ELSE /\ ticks' = [ticks EXCEPT ![l] = OpenTick(dbUp)]
       /\ loops' = [lp EXCEPT ![l] = IF OpenTick(dbUp) = NoTick
                                      THEN "sleep" ELSE "tick"]

\* asyncio.create_task(glances_poller.start_polling()): the task it makes
FreeLoop == CHOOSE l \in DOMAIN loops :
              loops[l] = "none" /\ \A h \in 1..(l - 1) : loops[h] # "none"

\* GlancesPoller.start_polling, first run of task l: the flag is set, then
\* the loop is entered
LoopStart(l, dbUp) ==
  /\ loops[l] = "created"
  /\ running' = TRUE
  /\ Iterate(l, loops, TRUE, dbUp)
  /\ UNCHANGED <<storeVars, now, app, lastAdmin, pushVars, cleanupVars,
                 normVars>>

\* main.startup_event: the polling task is created; nothing else is queued
\* on the event loop yet, so the task runs at once
startup_event(dbUp) ==
  /\ app = "init"
  /\ app' = "up"
  /\ running' = TRUE
  /\ Iterate(FreeLoop, [loops EXCEPT ![FreeLoop] = "created"], TRUE, dbUp)
  /\ UNCHANGED <<storeVars, now, lastAdmin, pushVars, cleanupVars, normVars>>

\* the fetch of target m in the tick of task l comes to resp, and
\* poll_machine runs to its end
TaskSettle(l, m, resp) ==
  /\ loops[l] = "tick"
  /\ m \in DOMAIN ticks[l].tasks
  /\ ticks[l].tasks[m] = "pending"
  /\ \E db \in {poll_machine(StoreNow(ticks[l].session), m, resp)} :
       /\ machines' = db.machines
       /\ snapshots' = db.snapshots
       /\ nextSnapshotId' = db.nextSnapshotId
       /\ ticks' = [ticks EXCEPT ![l].session = db.session,
                                 ![l].tasks[m] = "settled"]
  /\ UNCHANGED <<now, app, running, loops, lastAdmin, pushVars, cleanupVars,
                 normVars>>

\* gather() returns once every task settled; the Session is closed and the
\* loop goes to sleep(poll_interval)
TickEnd(l) ==
  /\ loops[l] = "tick"
  /\ \A m \in DOMAIN ticks[l].tasks : ticks[l].tasks[m] # "pending"
  /\ loops' = [loops EXCEPT ![l] = "sleep"]
  /\ ticks' = [ticks EXCEPT ![l].session = "closed"]
  /\ UNCHANGED <<storeVars, now, app, running, lastAdmin, pushVars,
                 cleanupVars, normVars>>

\* sleep(poll_interval) returns: the while tests the flag again
LoopWake(l, dbUp) ==
  /\ loops[l] = "sleep"
  /\ Iterate(l, loops, running, dbUp)
  /\ UNCHANGED <<storeVars, now, app, running, lastAdmin, pushVars,
                 cleanupVars, normVars>>

\* polling_router.start_polling (POST /start-polling)
StartPollingRequest ==
  /\ app = "up"
  /\ IF running
     THEN /\ lastAdmin' = "already_running"
          /\ UNCHANGED loops
     ELSE /\ \E l \in DOMAIN loops : loops[l] = "none"
          /\ loops' = [loops EXCEPT ![FreeLoop] = "created"]
          /\ lastAdmin' = "started"
  /\ UNCHANGED <<storeVars, now, app, running, ticks, pushVars, cleanupVars,
                 normVars>>

\* polling_router.stop_polling (POST /stop-polling)
StopPollingRequest ==
  /\ app = "up"
  /\ IF ~running
     THEN /\ lastAdmin' = "not_running"
          /\ UNCHANGED <<running, ticks>>
     ELSE /\ running' = FALSE
          /\ lastAdmin' = "stopped"
          /\ ticks' = [l \in DOMAIN ticks |->
                         IF loops[l] = "tick"
                         THEN [ticks[l] EXCEPT !.stopped = TRUE] ELSE ticks[l]]
  /\ UNCHANGED <<storeVars, now, app, loops, pushVars, cleanupVars,
                 normVars>>

NextPoll ==
  \/ \E dbUp \in BOOLEAN : startup_event(dbUp)
  \/ \E l \in 1..MaxLoops, dbUp \in BOOLEAN : LoopStart(l, dbUp)
  \/ \E l \in 1..MaxLoops, m \in MachineIds, resp \in PollResponses :
       TaskSettle(l, m, resp)
  \/ \E l \in 1..MaxLoops : TickEnd(l)
  \/ \E l \in 1..MaxLoops, dbUp \in BOOLEAN : LoopWake(l, dbUp)
  \/ StartPollingRequest
  \/ StopPollingRequest

SpecPoll == Init /\ [][NextPoll]_vars

\* A fetch that has not ended otherwise times out (ClientTimeout(total=10)),
\* gather() then returns, and every sleep(poll_interval) returns.
FairPoll ==
  /\ \A l \in 1..MaxLoops, m \in MachineIds :
       WF_vars(TaskSettle(l, m, "timeout"))
  /\ \A l \in 1..MaxLoops : WF_vars(TickEnd(l))
  /\ \A l \in 1..MaxLoops : WF_vars(\E dbUp \in BOOLEAN : LoopWake(l, dbUp))

SpecPollFair == SpecPoll /\ FairPoll

\* the tasks of tick l that have not settled
PendingTasks(l) == {m \in DOMAIN ticks[l].tasks : ticks[l].tasks[m] = "pending"}

\* C1: within one tick, a target whose fetch succeeds with a well-formed
\* body has its snapshot persisted, whatever timeout, connection failure,
\* non-200 answer or malformed body its siblings met.
\* (Stated as the claim states it; no snapshot write of the pull path
\* succeeds, and a sibling's malformed body can leave the tick's one Session
\* unusable.)
C1_TickIsolation ==
  [][\A l \in 1..MaxLoops, m \in MachineIds :
       (loops[l] = "tick" /\ m \in PendingTasks(l) /\ TaskSettle(l, m, "good"))
       => \E s \in snapshots' \ snapshots : s.machine_id = m]_vars

\* C8: a start_polling() call that runs while the scheduler is already
\* running is a no-op: the task ends at once and begins no tick.
\* (Stated as the claim states it; start_polling has no such guard.)
C8_StartWhileRunningNoOp ==
  [][\A l \in 1..MaxLoops :
       (loops[l] = "created" /\ running /\ loops'[l] # "created")
       => (loops'[l] = "none" /\ ticks'[l] = ticks[l])]_vars

\* C9: stop_polling cancels nothing: the step that clears the flag leaves
\* every task and every fetch where it was; a tick ends only when all its
\* fetches settled, and it does end; a loop leaves its sleep for a new tick
\* only if it reads the flag set, and a loop asleep with the flag cleared
\* terminates unless the flag is set again first.
C9_StopLetsTickFinish ==
  /\ [][/\ (running /\ ~running') =>
             /\ loops' = loops
             /\ \A l \in 1..MaxLoops :
                  /\ ticks'[l].tasks = ticks[l].tasks
                  /\ ticks'[l].session = ticks[l].session
        /\ \A l \in 1..MaxLoops :
             /\ (loops[l] = "tick" /\ loops'[l] # "tick")
                  => (PendingTasks(l) = {} /\ loops'[l] = "sleep")
             /\ (loops[l] = "tick" /\ loops'[l] = "tick")
                  => PendingTasks(l)' \subseteq PendingTasks(l)
             /\ (loops[l] = "sleep" /\ loops'[l] = "tick") => running
             /\ (loops[l] = "sleep" /\ ~running /\ loops'[l] # "sleep")
                  => loops'[l] = "none"]_vars
  /\ \A l \in 1..MaxLoops :
       (ticks[l].stopped /\ loops[l] = "tick") ~> (loops[l] = "sleep")
  /\ \A l \in 1..MaxLoops :
       (loops[l] = "sleep" /\ ~running) ~> (loops[l] = "none" \/ running)

\* a loop was stopped during a tick with a fetch outstanding, the tick ran
\* to its end with every fetch settled, and the loop has terminated
C9_Witness ==
  \E l \in 1..MaxLoops :
    /\ loops[l] = "none"
    /\ ticks[l].stopped
    /\ ticks[l].tasks # <<>>
    /\ PendingTasks(l) = {}
    /\ ~running

\* C25: a poll task works as if on a Session of its own: what its fetch
\* leaves in the registry does not depend on what its siblings did to the
\* Session before it.
\* (Stated as the claim states it; the tasks of a tick share one Session,
\* and after a sibling's failed commit every write of the others is lost.)
C25_OwnUnitOfWork ==
  [][\A l \in 1..MaxLoops, m \in MachineIds, resp \in PollResponses :
       (loops[l] = "tick" /\ m \in PendingTasks(l) /\ TaskSettle(l, m, resp))
       => machines' = poll_machine(StoreNow("ok"), m, resp).machines]_vars

\* C26: a poll task that refreshes its machine's last_seen persisted a
\* snapshot of that machine in the same fetch.
\* (Stated as the claim states it; poll_machine refreshes last_seen after
\* every 200 answer with a JSON body, whatever became of the snapshot.)
C26_LastSeenOnlyWithSnapshot ==
  [][\A l \in 1..MaxLoops, m \in MachineIds :
       (/\ loops[l] = "tick"
        /\ m \in PendingTasks(l)
        /\ m \notin PendingTasks(l)'
        /\ m \in DOMAIN machines
        /\ machines'[m].last_seen # machines[m].last_seen)
       => \E s \in snapshots' \ snapshots : s.machine_id = m]_vars

\* the loops that are polling or will poll again: in a tick, or asleep with
\* the flag set (a loop asleep with the flag cleared ends when it wakes)
AliveLoops ==
  {l \in 1..MaxLoops : loops[l] = "tick" \/ (loops[l] = "sleep" /\ running)}

\* C27: at most one polling loop is alive at any time.
\* (Stated as the claim states it; a start after a stop makes a second loop
\* while the first is asleep or in a tick, and the first then reads the flag
\* the second has set.)
C27_SingleLoop == Cardinality(AliveLoops) <= 1

\* C28: telemetry ingestion keeps hostnames unique in the registry: no two
\* registered machines ever hold the same hostname, whatever was polled or
\* pushed
C28_HostnamesUnique ==
  \A a, b \in DOMAIN machines :
    a # b => machines[a].hostname # machines[b].hostname

(***************************************************************************)
(* The polling loop when poll_all_machines raises                          *)
(*                                                                         *)
(* poll_all_machines catches what its try block raises (reading the        *)
(* active machines, creating and gathering the tasks) and returns; the     *)
(* loop then sleeps poll_interval like after any tick (OpenTick with the   *)
(* database down).  What it raises outside the try block, opening the      *)
(* Session with next(get_db()), reaches the handler of start_polling,      *)
(* which sleeps RetryDelay: a loop is then in "retry".                     *)
(***************************************************************************)
\* the sleep of start_polling after an exception reached it, in seconds
RetryDelay == 5
\* poll_interval of the poller, in seconds
poll_interval == 30

\* the sleep a loop is in
SleepOf(at) == CASE at = "sleep" -> poll_interval
                 [] at = "retry" -> RetryDelay
                 [] OTHER -> 0

\* task l passes its while and next(get_db()) raises: "except Exception" of
\* start_polling logs it and sleeps RetryDelay
TickRaises(l) ==
  /\ loops[l] \in {"sleep", "retry"}
  /\ running
  /\ loops' = [loops EXCEPT ![l] = "retry"]
  /\ ticks' = [ticks EXCEPT ![l] = NoTick]
  /\ UNCHANGED <<storeVars, now, app, running, lastAdmin, pushVars,
                 cleanupVars, normVars>>

\* sleep(5) returns: the while tests the flag again
RetryWake(l, dbUp) ==
  /\ loops[l] = "retry"
  /\ Iterate(l, loops, running, dbUp)
  /\ UNCHANGED <<storeVars, now, app, running, lastAdmin, pushVars,
                 cleanupVars, normVars>>

NextPollFaults ==
  \/ NextPoll
  \/ \E l \in 1..MaxLoops : TickRaises(l)
  \/ \E l \in 1..MaxLoops, dbUp \in BOOLEAN : RetryWake(l, dbUp)

SpecPollFaults == Init /\ [][NextPollFaults]_vars

\* task l ended a sleep with the flag set and machines to poll, and began no
\* tick: its tick orchestration raised
OrchestrationRaised(l) ==
  /\ loops[l] \in {"sleep", "retry"}
  /\ running
  /\ ActiveMachines # {}
  /\ loops'[l] # "tick"
  /\ ticks'[l] = NoTick
  /\ <<loops[l], ticks[l]>> # <<loops'[l], ticks'[l]>>

\* C18: when the tick orchestration raises, the loop does not end; it waits
\* the retry delay, not the poll interval, before its next tick.
\* (Stated as the claim states it; an exception inside the try block of
\* poll_all_machines never reaches the loop, which sleeps the interval.)
C18_LoopLevelRecovery ==
  [][\A l \in 1..MaxLoops :
       OrchestrationRaised(l)
         => /\ loops'[l] # "none"
            /\ SleepOf(loops'[l]) = RetryDelay]_vars

(***************************************************************************)
(* The push path: POST /webhook/glances                                    *)
(***************************************************************************)
\* the shared secret the deployment is configured with
ConfiguredSecret == "s3cret"

\* auth.verify_api_key: exact equality with the configured secret; a
\* missing header (None) is not equal to it
verify_api_key(x_secret) == x_secret = PyStr(ConfiguredSecret)

\* a request body that is not JSON
InvalidJson == [t |-> "invalid_json"]

\* ips_to_check = [ip for ip in [external_ip, local_ip] if ip]
IpsToCheck(raw_data) ==
  SelectSeq(<<Get(raw_data, "external_ip"), Get(raw_data, "local_ip")>>, Truthy)

\* the rows crud.get_machine_by_ip may return for the first address of ips
\* that has any: the loop breaks at the first hit
AllowedMachines(ips) ==
  IF \E i \in 1..Len(ips) : MachinesByIp(ips[i]) # {}
  THEN MachinesByIp(ips[CHOOSE i \in 1..Len(ips) :
                          /\ MachinesByIp(ips[i]) # {}
                          /\ \A h \in 1..(i - 1) : MachinesByIp(ips[h]) = {}])
  ELSE {}

\* what the handler answers and leaves behind: the HTTP status, the steps
\* it took, the machine it resolved (0 for none) and the tables
PushResult(status, steps, m, db) ==
  [status |-> status, steps |-> steps, machine |-> m, db |-> db]

StepsToGate == <<"auth", "json", "ip_lookup">>
StepsToLookup == StepsToGate \o <<"parse", "hostname_lookup">>

\* a reconciliation that writes the three values whatever they are
PushReconciled_Always(row, parsed) ==
  [row EXCEPT !.os_name = parsed.os_name,
              !.os_version = parsed.os_version,
              !.hostname = parsed.hostname]

\* the row of machines after "if new and (not stored or stored != new)" on
\* os_name, os_version and hostname
PushReconciled(row, parsed) ==
  [row EXCEPT !.os_name = WriteOnChange(@, parsed.os_name),
              !.os_version = WriteOnChange(@, parsed.os_version),
              !.hostname = WriteOnChange(@, parsed.hostname)]

\* "if machine_updated: db.commit()": the steps of the reconciliation
CommitSteps(row, new) ==
  IF new # row THEN <<"update", "commit">> ELSE <<"update">>

\* a handler whose failed snapshot write takes the field updates back
IngestInto_RollsBack(db, t, parsed, new) ==
  IF ~SystemSnapshotCreate(parsed) \/ SnapshotRaises
     \/ ~(ColumnOk(new.os_name) /\ ColumnOk(new.os_version)
            /\ ColumnOk(new.hostname))
  THEN PushResult(500, StepsToLookup \o <<"update", "commit">>, t, db)
  ELSE PushResult(200, StepsToLookup \o CommitSteps(db.machines[t], new)
                         \o <<"snapshot", "last_seen">>,
                  t,
                  update_machine_last_seen(
                    create_system_snapshot([db EXCEPT !.machines[t] = new],
                                           t), t))

\* the handler from the resolved machine t on: the write-on-change (new)
\* and its commit, the validation, the snapshot, last_seen
IngestInto(db, t, parsed, new) ==
  IF new # db.machines[t] /\ ~(ColumnOk(new.os_name) /\ ColumnOk(new.os_version)
                                /\ ColumnOk(new.hostname))
  THEN PushResult(500, StepsToLookup \o <<"update", "commit">>, t, db)
  ELSE IF ~SystemSnapshotCreate(parsed)
  THEN PushResult(500, StepsToLookup \o CommitSteps(db.machines[t], new), t,
                  [db EXCEPT !.machines[t] = new])
  ELSE IF SnapshotRaises
  THEN PushResult(500, StepsToLookup \o CommitSteps(db.machines[t], new)
                         \o <<"snapshot">>,
                  t, [db EXCEPT !.machines[t] = new])
  ELSE PushResult(200, StepsToLookup \o CommitSteps(db.machines[t], new)
                         \o <<"snapshot", "last_seen">>,
                  t,
                  update_machine_last_seen(
                    create_system_snapshot([db EXCEPT !.machines[t] = new],
                                           t), t))

\* the handler from the parse on, for the address-verified machine a:
\* the machine of that hostname if there is one, a otherwise
Ingest(db, a, r) ==
  IF IsRaise(r) THEN {PushResult(500, StepsToGate \o <<"parse">>, 0, db)}
  ELSE { IngestInto(db, t, r.parsed, PushReconciled(db.machines[t], r.parsed)) :
           t \in IF MachinesByHostname(r.parsed.hostname) # {}
                 THEN MachinesByHostname(r.parsed.hostname) ELSE {a} }

\* the handler with a gate that lets every payload through
Gate_NoAddressCheck(db, raw_data, ips) ==
  UNION {Ingest(db, a, parse_glances_data(raw_data)) : a \in DOMAIN db.machines}

\* the handler from the address gate on
Gate(db, raw_data, ips) ==
  IF ips = <<>> THEN {PushResult(403, <<"auth", "json">>, 0, db)}
  ELSE IF AllowedMachines(ips) = {} THEN {PushResult(403, StepsToGate, 0, db)}
  ELSE UNION {Ingest(db, a, parse_glances_data(raw_data)) :
                a \in AllowedMachines(ips)}

\* the handler without its header check
PushOutcomes_NoAuth(x_secret, body) ==
  IF body = InvalidJson
  THEN {PushResult(400, <<"auth", "json">>, 0, StoreNow("ok"))}
  ELSE IF ~IsDict(body)
  THEN {PushResult(500, <<"auth", "json">>, 0, StoreNow("ok"))}
  ELSE Gate(StoreNow("ok"), body, IpsToCheck(body))

\* webhook_router.receive_glances_data: the answers it may give
PushOutcomes(x_secret, body) ==
  IF ~verify_api_key(x_secret)
  THEN {PushResult(401, <<"auth">>, 0, StoreNow("ok"))}
  ELSE IF body = InvalidJson
  THEN {PushResult(400, <<"auth", "json">>, 0, StoreNow("ok"))}
  ELSE IF ~IsDict(body)
  THEN {PushResult(500, <<"auth", "json">>, 0, StoreNow("ok"))}
  ELSE Gate(StoreNow("ok"), body, IpsToCheck(body))

\* one POST /webhook/glances, from the header check to the answer
receive_glances_data(x_secret, body) ==
  /\ app = "up"
  /\ pushCount < MaxPushes
  /\ pushCount' = pushCount + 1
  /\ \E r \in PushOutcomes(x_secret, body) :
       /\ machines' = r.db.machines
       /\ snapshots' = r.db.snapshots
       /\ nextSnapshotId' = r.db.nextSnapshotId
       /\ lastPush' = [status |-> r.status, steps |-> r.steps,
                       machine |-> r.machine, secret |-> x_secret,
                       body |-> body]
  /\ UNCHANGED <<now, app, pollVars, pushPending, cleanupVars, normVars>>

\* the X-Secret headers and the bodies of the model
Secrets == {PyNone, PyStr("wrong"), PyStr(ConfiguredSecret)}

PushField(k, v) == IF v = PyNone THEN <<>> ELSE k :> v

PushExtras ==
  { <<>>,
    "mem" :> PyDict([used |-> PyStr("abc")]),
    "sensors" :> PyStr("Not available") }

PushSystems ==
  { PyNone,
    PyDict([hostname |-> PyStr(HostOf(1)), os_name |-> PyStr("Linux")]),
    PyDict([hostname |-> PyStr(HostOf(2)), os_name |-> PyStr("Darwin")]),
    PyDict([hostname |-> PyStr("newhost"), os_name |-> PyStr("Linux")]) }

PushBodies ==
  {InvalidJson, PyList(<<>>)} \cup
  { PyDict(PushField("external_ip", ext) @@ PushField("local_ip", loc)
           @@ PushField("system", sys) @@ extra) :
      ext \in {PyNone, PyStr(IpOf(1)), PyStr("10.9.9.9")},
      loc \in {PyNone, PyStr(""), PyStr(IpOf(2))},
      sys \in PushSystems,
      extra \in PushExtras }

NextPush ==
  \/ \E dbUp \in BOOLEAN : startup_event(dbUp)
  \/ \E x_secret \in Secrets, body \in PushBodies :
       receive_glances_data(x_secret, body)

SpecPush == Init /\ [][NextPush]_vars

\* a push was handled in this step
PushHandled == pushCount' # pushCount

\* address x of a payload is the address of registered machine m
RegisteredTo(x, m) == x.t = "str" /\ x.s # "" /\ machines[m].ip_address = x.s
Registered(x) == \E m \in DOMAIN machines : RegisteredTo(x, m)

\* every candidate address of the payload is missing or unregistered
NoRegisteredAddress(body) ==
  /\ ~Registered(Get(body, "external_ip"))
  /\ ~Registered(Get(body, "local_ip"))

\* the first registered candidate address of the payload is that of a
AddressMatches(body, a) ==
  \/ RegisteredTo(Get(body, "external_ip"), a)
  \/ /\ ~Registered(Get(body, "external_ip"))
     /\ RegisteredTo(Get(body, "local_ip"), a)

\* the hostname the payload carries in its system section is that of b
HostnameMatches(body, b) ==
  /\ Has(body, "system")
  /\ IsDict(body.kv["system"])
  /\ Has(body.kv["system"], "hostname")
  /\ body.kv["system"].kv["hostname"] = machines[b].hostname

\* C10: a push whose secret is missing or differs from the configured one
\* is answered 401 after the header check alone: the body is not read, no
\* lookup is made, no machine field changes and no snapshot is stored.
C10_AuthGateFirst ==
  [][(PushHandled /\ lastPush'.secret # PyStr(ConfiguredSecret))
       => /\ lastPush'.status = 401
          /\ lastPush'.steps = <<"auth">>
          /\ UNCHANGED storeVars]_vars

\* a push without the header was refused although its body names a
\* registered address and a registered hostname
C10_Witness ==
  /\ pushCount = 1
  /\ lastPush.status = 401
  /\ lastPush.secret = PyNone
  /\ IsDict(lastPush.body)
  /\ AddressMatches(lastPush.body, 1)
  /\ HostnameMatches(lastPush.body, 1)
  /\ snapshots = {}

\* C2: a push with the valid secret whose candidate addresses are all
\* missing or unregistered is answered 403, stores no snapshot and changes
\* no machine field, whatever hostname its payload carries.
C2_AddressGate ==
  [][(/\ PushHandled
      /\ lastPush'.secret = PyStr(ConfiguredSecret)
      /\ IsDict(lastPush'.body)
      /\ NoRegisteredAddress(lastPush'.body))
       => /\ lastPush'.status = 403
          /\ UNCHANGED storeVars]_vars

\* a push with the valid secret, an unregistered address and the hostname
\* of a registered machine was refused
C2_Witness ==
  /\ pushCount = 1
  /\ lastPush.status = 403
  /\ lastPush.secret = PyStr(ConfiguredSecret)
  /\ IsDict(lastPush.body)
  /\ Get(lastPush.body, "external_ip") = PyStr("10.9.9.9")
  /\ NoRegisteredAddress(lastPush.body)
  /\ \E b \in DOMAIN machines : HostnameMatches(lastPush.body, b)
  /\ snapshots = {}

\* C3: when the address of a push with the valid secret is that of machine
\* a and its hostname is that of another machine b, the snapshot is stored
\* under b, the reconciliation and the last_seen refresh are applied to b,
\* and machine a is left as it was.
\* (Stated as the claim states it; the reconciliation is applied to b and a
\* is left alone, but the snapshot write raises and last_seen is not refreshed.)
C3_HostnamePriority ==
  [][\A a, b \in MachineIds :
       (/\ PushHandled
        /\ a # b
        /\ lastPush'.secret = PyStr(ConfiguredSecret)
        /\ IsDict(lastPush'.body)
        /\ AddressMatches(lastPush'.body, a)
        /\ HostnameMatches(lastPush'.body, b))
       => /\ machines'[a] = machines[a]
          /\ \E s \in snapshots' \ snapshots : s.machine_id = b
          /\ \A s \in snapshots' \ snapshots : s.machine_id = b
          /\ machines'[b].last_seen = now]_vars

\* the values parse_glances_data gave the handler for the last push
PushParsed == parse_glances_data(lastPush'.body).parsed

\* a push was handled in this step and it resolved machine t
PushResolved(t) ==
  /\ PushHandled
  /\ lastPush'.machine = t
  /\ t \in DOMAIN machines

C12_LastSeenUnconditional ==
  [][\A t \in MachineIds :
       PushResolved(t) => machines'[t].last_seen = now]_vars

\* a push with the valid secret, a registered address and a payload the
\* snapshot schema takes
PushWellFormed ==
  /\ PushHandled
  /\ lastPush'.secret = PyStr(ConfiguredSecret)
  /\ IsDict(lastPush'.body)
  /\ \E a \in MachineIds : AddressMatches(lastPush'.body, a)
  /\ ~IsRaise(parse_glances_data(lastPush'.body))
  /\ SystemSnapshotCreate(parse_glances_data(lastPush'.body).parsed)

\* C13: a push that is accepted stores a snapshot, and every snapshot the
\* push path stores carries the source tag "push", which the pull path
\* never writes.
\* (Stated as the claim states it; the handler passes no source, the schema
\* fills in "api", and the table has no column for it.)
C13_PushSourceTag ==
  [][PushWellFormed =>
       /\ snapshots' # snapshots
       /\ \A s \in snapshots' \ snapshots :
            "source" \in DOMAIN s /\ s["source"] = "push"]_vars

\* the fields the reconciliation of a push may write
ReconciledFields == {"os_name", "os_version", "hostname"}

\* the push of this step brought machine t a value to write, every value it
\* brought can be bound to its column, and no snapshot came of it
UpdatedThenFailed(t) ==
  /\ PushResolved(t)
  /\ \E f \in ReconciledFields :
       Truthy(PushParsed[f]) /\ PushParsed[f] # machines[t][f]
  /\ \A f \in ReconciledFields : ColumnOk(PushParsed[f])
  /\ lastPush'.status # 200

\* C23: a push whose snapshot write fails after fields of its machine were
\* updated answers with an error, stores no snapshot, and leaves the machine
\* with every value the payload brought.
C23_UpdatesNotRolledBack ==
  [][\A t \in MachineIds : UpdatedThenFailed(t) =>
       /\ lastPush'.status = 500
       /\ snapshots' = snapshots
       /\ \A f \in ReconciledFields :
            Truthy(PushParsed[f]) => machines'[t][f] = PushParsed[f]
       /\ machines'[t] # machines[t]]_vars

\* a push brought machine 1 the OS name "Linux", the fields were committed,
\* the snapshot write raised and the request ended 500: the machine has the
\* OS name and there is no snapshot
C23_Witness ==
  /\ pushCount = 1
  /\ lastPush.status = 500
  /\ lastPush.machine = 1
  /\ lastPush.steps = StepsToLookup \o <<"update", "commit", "snapshot">>
  /\ machines[1].os_name = PyStr("Linux")
  /\ Get(lastPush.body.kv["system"], "os_name") = PyStr("Linux")
  /\ snapshots = {}

(***************************************************************************)
(* The retention service                                                   *)
(*                                                                         *)
(* _run_cleanup has no await between its first statement and its last, so  *)
(* a cycle is one step.  The clock counts days.                            *)
(***************************************************************************)
\* the snapshots of machine m among ss
SnapshotsOf(m, ss) == {s \in ss : s.machine_id = m}

\* a count policy that deletes the newest rows over the cap
ExcessOf_Newest(m, ss, cap) ==
  IF Cardinality(SnapshotsOf(m, ss)) > cap
  THEN {D \in SUBSET SnapshotsOf(m, ss) :
          /\ Cardinality(D) = Cardinality(SnapshotsOf(m, ss)) - cap
          /\ \A d \in D, r \in SnapshotsOf(m, ss) \ D :
               d.created_at >= r.created_at}
  ELSE {{}}

\* what "order_by(desc(created_at)).offset(cap)" may leave to delete for
\* machine m: all but cap rows, none of them newer than a row that is kept;
\* rows of one created_at come in either order
ExcessOf(m, ss, cap) ==
  IF Cardinality(SnapshotsOf(m, ss)) > cap
  THEN {D \in SUBSET SnapshotsOf(m, ss) :
          /\ Cardinality(D) = Cardinality(SnapshotsOf(m, ss)) - cap
          /\ \A d \in D, r \in SnapshotsOf(m, ss) \ D :
               d.created_at <= r.created_at}
  ELSE {{}}

\* crud.cleanup_snapshots_by_count: the sets of rows it may delete over the
\* machines ms, one ExcessOf for each
RECURSIVE cleanup_snapshots_by_count(_, _, _)
cleanup_snapshots_by_count(ms, ss, cap) ==
  IF ms = {} THEN {{}}
  ELSE LET m == CHOOSE x \in ms : TRUE
       IN {D \cup R : D \in ExcessOf(m, ss, cap),
                      R \in cleanup_snapshots_by_count(ms \ {m}, ss, cap)}

\* an age policy that also deletes the rows created at the cutoff
cleanup_old_snapshots_Inclusive(ss, days) ==
  {s \in ss : s.created_at <= now - days}

\* crud.cleanup_old_snapshots: the rows with created_at < utcnow() - days
cleanup_old_snapshots(ss, days) == {s \in ss : s.created_at < now - days}

\* a cycle whose age policy never runs
AgeDeleted_Skipped(ss, fail) == {}

\* the age policy of a cycle on the rows ss the count policy left:
\* "if self.cleanup_old_records_days:", and nothing when it raises
AgeDeleted(ss, fail) ==
  IF cleanup_old_records_days # NoAgeCutoff /\ fail # "age"
  THEN cleanup_old_snapshots(ss, cleanup_old_records_days)
  ELSE {}

\* CleanupService._run_cleanup: the count policy, then the age policy if it
\* is configured; an exception (fail says in which policy) is logged, the
\* open transaction is rolled back and the cycle ends
run_cleanup(fail) ==
  /\ fail = "age" => cleanup_old_records_days # NoAgeCutoff
  /\ \E byCount \in IF fail = "count" THEN {{}}
                    ELSE cleanup_snapshots_by_count(DOMAIN machines, snapshots,
                                                    MaxRecordsPerMachine) :
       /\ snapshots' = (snapshots \ byCount) \ AgeDeleted(snapshots \ byCount, fail)
       /\ lastCleanup' = [ran |-> TRUE, ok |-> fail = "none", at |-> now,
                          by_count |-> byCount,
                          by_age |-> AgeDeleted(snapshots \ byCount, fail),
                          repeat |-> lastCleanup.ran /\ lastCleanup.ok
                                       /\ ~written]
  /\ written' = (written /\ fail # "none")
  /\ UNCHANGED <<machines, nextSnapshotId, now, app, pollVars, pushVars,
                 cleanup_old_records_days, serviceVars, normVars>>

\* a row of machine m is inserted into system_snapshots by a writer of the
\* database: the retention service takes the table as it finds it
WriteSnapshot(m) ==
  /\ nextSnapshotId <= MaxWrites
  /\ m \in DOMAIN machines
  /\ snapshots' = snapshots \cup {SnapshotRow(nextSnapshotId, m)}
  /\ nextSnapshotId' = nextSnapshotId + 1
  /\ UNCHANGED machines
  /\ written' = TRUE
  /\ UNCHANGED <<now, app, pollVars, pushVars, cleanup_old_records_days,
                 lastCleanup, serviceVars, normVars>>

\* a day passes
AdvanceClock ==
  /\ now < MaxTime
  /\ now' = now + 1
  /\ UNCHANGED <<storeVars, app, pollVars, pushVars, cleanupVars, normVars>>

NextRetention ==
  \/ \E m \in MachineIds : WriteSnapshot(m)
  \/ AdvanceClock
  \/ \E fail \in {"none", "count", "age"} : run_cleanup(fail)

\* the service constructed with any cleanup_old_records_days
InitRetention ==
  /\ InitBase
  /\ cleanup_old_records_days \in 0..MaxDays

SpecRetention == InitRetention /\ [][NextRetention]_vars

\* a retention cycle ran in this step
CycleStep == lastCleanup' # lastCleanup \/ (written /\ ~written')

\* a cycle completed and no snapshot was written since
NothingWrittenSinceCycle == lastCleanup.ran /\ lastCleanup.ok /\ ~written

\* C4: after a cycle that completes, every machine has at most the cap of
\* snapshots; of a machine that had c > cap the count policy deletes
\* exactly c - cap, none newer than one it keeps, and of a machine within
\* the cap it deletes none; with no age cutoff configured the cycle deletes
\* nothing else, so the cap most recent remain.
C4_CountCap ==
  [][(CycleStep /\ lastCleanup'.ok) =>
       \A m \in DOMAIN machines :
         LET had == SnapshotsOf(m, snapshots)
             gone == SnapshotsOf(m, lastCleanup'.by_count)
         IN /\ Cardinality(SnapshotsOf(m, snapshots')) <= MaxRecordsPerMachine
            /\ gone \subseteq had
            /\ Cardinality(had) <= MaxRecordsPerMachine => gone = {}
            /\ Cardinality(had) > MaxRecordsPerMachine =>
                 /\ Cardinality(gone) =
                      Cardinality(had) - MaxRecordsPerMachine
                 /\ \A d \in gone, r \in had \ gone :
                      d.created_at <= r.created_at
            /\ cleanup_old_records_days = NoAgeCutoff =>
                 SnapshotsOf(m, snapshots') = had \ gone]_vars

\* a cycle without age cutoff found a machine two over the cap, deleted its
\* two oldest snapshots and left it at the cap
C4_Witness ==
  /\ lastCleanup.ok
  /\ cleanup_old_records_days = NoAgeCutoff
  /\ \E m \in DOMAIN machines :
       /\ Cardinality(SnapshotsOf(m, lastCleanup.by_count)) = 2
       /\ Cardinality(SnapshotsOf(m, snapshots)) = MaxRecordsPerMachine
       /\ \A d \in SnapshotsOf(m, lastCleanup.by_count),
             r \in SnapshotsOf(m, snapshots) : d.created_at < r.created_at

\* C5 as the claim states it: once a cycle completed, nothing is deleted
\* until a snapshot is written.
C5_SecondCycleDeletesNothing ==
  [][NothingWrittenSinceCycle => snapshots \subseteq snapshots']_vars

\* C5, corrected: a cycle that follows a completed cycle with no snapshot
\* written in between deletes nothing by the count policy; what it deletes
\* is deleted by the age policy, and is exactly what came to be older than
\* the cutoff since the cycle before; it deletes nothing at all if the
\* clock has not moved.
C5_SecondCycleCountNoOp ==
  [][(NothingWrittenSinceCycle /\ CycleStep) =>
       /\ lastCleanup'.by_count = {}
       /\ snapshots \ snapshots' = lastCleanup'.by_age
       /\ \A d \in snapshots \ snapshots' :
            /\ d.created_at < now - cleanup_old_records_days
            /\ d.created_at >= lastCleanup.at - cleanup_old_records_days
       /\ now = lastCleanup.at => snapshots' = snapshots]_vars

\* a cycle that followed a completed cycle with no snapshot written in
\* between deleted a snapshot by age and none by count
C5_Witness ==
  /\ lastCleanup.repeat
  /\ lastCleanup.ok
  /\ lastCleanup.by_count = {}
  /\ lastCleanup.by_age # {}

\* C6 as the claim states it: with the age cutoff enabled, a cycle that
\* completes deletes every snapshot older than the cutoff and every
\* snapshot at or after the cutoff survives the cycle.
C6_RecentSurvivesCycle ==
  [][(CycleStep /\ lastCleanup'.ok /\ cleanup_old_records_days # NoAgeCutoff)
       => \A s \in snapshots :
            /\ s.created_at < now - cleanup_old_records_days
                 => s \notin snapshots'
            /\ s.created_at >= now - cleanup_old_records_days
                 => s \in snapshots']_vars

\* C6, corrected: with the age cutoff enabled, a cycle that completes
\* deletes every snapshot older than the cutoff; a snapshot at or after the
\* cutoff is never deleted by the age policy, and leaves the store in that
\* cycle only as excess of its machine over the count cap.
C6_RecentSurvivesAgePolicy ==
  [][(CycleStep /\ lastCleanup'.ok /\ cleanup_old_records_days # NoAgeCutoff)
       => \A s \in snapshots :
            /\ s.created_at < now - cleanup_old_records_days
                 => s \notin snapshots'
            /\ s.created_at >= now - cleanup_old_records_days
                 => /\ s \notin lastCleanup'.by_age
                    /\ s \in snapshots' \/ s \in lastCleanup'.by_count
                    /\ s \in lastCleanup'.by_count
                         => Cardinality(SnapshotsOf(s.machine_id, snapshots))
                              > MaxRecordsPerMachine]_vars

\* a cycle with the age cutoff enabled deleted a snapshot by age, deleted a
\* snapshot newer than the cutoff as excess over the cap, and left others
C6_Witness ==
  /\ cleanup_old_records_days # NoAgeCutoff
  /\ lastCleanup.ok
  /\ lastCleanup.by_age # {}
  /\ \E d \in lastCleanup.by_count :
       d.created_at >= lastCleanup.at - cleanup_old_records_days
  /\ snapshots # {}

(***************************************************************************)
(* The count policy interrupted between two machines                       *)
(*                                                                         *)
(* crud.cleanup_snapshots_by_count issues the DELETE of each machine in    *)
(* turn and commits once, after its loop.  Interrupted after the machines  *)
(* done, its DELETEs are pending in a transaction that is never committed: *)
(* _run_cleanup rolls it back, and so does the database when the process   *)
(* is gone.                                                                *)
(***************************************************************************)
\* a policy that commits the DELETE of each machine as it goes
Committed_PerMachine(pending, reachedCommit) == pending

\* the rows of the pending DELETEs that are deleted for good
Committed(pending, reachedCommit) == IF reachedCommit THEN pending ELSE {}

\* a cycle whose count policy raises, or whose process dies, after the
\* DELETEs of the machines done and before those of the others
CountInterrupted(done) ==
  /\ done \subseteq DOMAIN machines
  /\ done # DOMAIN machines
  /\ \E pending \in cleanup_snapshots_by_count(done, snapshots,
                                               MaxRecordsPerMachine) :
       /\ snapshots' = snapshots \ Committed(pending, FALSE)
       /\ lastCleanup' = [ran |-> TRUE, ok |-> FALSE, at |-> now,
                          by_count |-> Committed(pending, FALSE),
                          by_age |-> {},
                          repeat |-> lastCleanup.ran /\ lastCleanup.ok
                                       /\ ~written,
                          pending |-> pending]
  /\ UNCHANGED <<machines, nextSnapshotId, now, app, pollVars, pushVars,
                 cleanup_old_records_days, written, serviceVars, normVars>>

\* the retention service with cycles that are interrupted
SpecInterrupted ==
  InitRetention
    /\ [][NextRetention
           \/ \E done \in SUBSET MachineIds : CountInterrupted(done)]_vars

\* a count policy was interrupted in this step
InterruptedStep ==
  /\ lastCleanup' # lastCleanup
  /\ "pending" \in DOMAIN lastCleanup'

\* C24 as stated: the deletions an interrupted count policy had made for the
\* machines it got to stay applied.
\* (The policy commits once after its loop; they are rolled back.)
C24_PartialCleanupStays ==
  [][InterruptedStep => snapshots' = snapshots \ lastCleanup'.pending]_vars

\* C24, amended: the count policy is all-or-nothing: interrupted before its
\* commit it leaves the table as it was, whatever it had deleted for the
\* machines it got to; its deletions stay applied when the cycle fails later,
\* in the age policy.
C24_CountPolicyAllOrNothing ==
  [][/\ InterruptedStep => snapshots' = snapshots
     /\ (lastCleanup' # lastCleanup /\ ~lastCleanup'.ok
           /\ lastCleanup'.by_count # {})
          => /\ lastCleanup'.by_count \cap snapshots' = {}
             /\ lastCleanup'.by_count \subseteq snapshots]_vars

\* a count policy was interrupted after the DELETE of a machine over the cap
\* and the rows of that DELETE are in the table
C24_Witness ==
  /\ "pending" \in DOMAIN lastCleanup
  /\ lastCleanup.pending # {}
  /\ lastCleanup.pending \subseteq snapshots
  /\ lastCleanup.at = now

(***************************************************************************)
(* The registry under deletes                                              *)
(*                                                                         *)
(* DELETE /api/machines/{id} commits between two statements of a push or   *)
(* of a poll task when it is served by another worker process: every       *)
(* statement of a handler is its own round trip to the database.  A push   *)
(* is split here at the point where its machine is resolved.               *)
(***************************************************************************)
\* a registry that forgets the machine and keeps its snapshots
delete_machine_NoCascade(db, m) ==
  [db EXCEPT !.machines = [x \in DOMAIN db.machines \ {m} |-> db.machines[x]]]

\* crud.delete_machine: the row goes, and with it (cascade "all,
\* delete-orphan" of Machine.snapshots) the snapshots of the machine
delete_machine(db, m) ==
  [db EXCEPT !.machines = [x \in DOMAIN db.machines \ {m} |-> db.machines[x]],
             !.snapshots = db.snapshots \ SnapshotsOf(m, db.snapshots)]

\* machines_router.delete_machine
DeleteMachine(m) ==
  /\ app = "up"
  /\ m \in DOMAIN machines
  /\ \E db \in {delete_machine(StoreNow("ok"), m)} :
       /\ machines' = db.machines
       /\ snapshots' = db.snapshots
  /\ UNCHANGED <<nextSnapshotId, now, app, pollVars, pushVars, cleanupVars,
                 normVars>>

\* the bodies pushed while machines are deleted
RegistryBodies ==
  { PyDict("external_ip" :> PyStr(IpOf(1))
           @@ "system" :> PyDict([hostname |-> PyStr(HostOf(m)),
                                  os_name |-> PyStr("Linux")])) :
      m \in MachineIds }

\* receive_glances_data up to the machine it resolves
PushResolve(body) ==
  /\ app = "up"
  /\ pushCount < MaxPushes
  /\ pushPending = NoPending
  /\ \E r \in PushOutcomes(PyStr(ConfiguredSecret), body) :
       /\ r.machine # 0
       /\ pushPending' = [t |-> r.machine, body |-> body]
  /\ UNCHANGED <<storeVars, now, app, pollVars, pushCount, lastPush,
                 cleanupVars, normVars>>

\* the rest of the handler for the machine t it holds: when the row is gone
\* the UPDATE of the reconciliation matches no row, or the snapshot write
\* raises; either exception ends in the handler's "except Exception"
PushWriteResult(db, t, r) ==
  IF t \in DOMAIN db.machines
  THEN IngestInto(db, t, r.parsed, PushReconciled(db.machines[t], r.parsed))
  ELSE PushResult(500, StepsToLookup \o <<"update">>, t, db)

\* receive_glances_data from the reconciliation on
PushWrite ==
  /\ pushPending # NoPending
  /\ pushCount' = pushCount + 1
  /\ pushPending' = NoPending
  /\ \E r \in {PushWriteResult(StoreNow("ok"), pushPending.t,
                               parse_glances_data(pushPending.body))} :
       /\ machines' = r.db.machines
       /\ snapshots' = r.db.snapshots
       /\ nextSnapshotId' = r.db.nextSnapshotId
       /\ lastPush' = [status |-> r.status, steps |-> r.steps,
                       machine |-> r.machine,
                       secret |-> PyStr(ConfiguredSecret),
                       body |-> pushPending.body]
  /\ UNCHANGED <<now, app, pollVars, cleanupVars, normVars>>

NextRegistry ==
  \/ \E dbUp \in BOOLEAN : startup_event(dbUp)
  \/ \E m \in MachineIds : DeleteMachine(m)
  \/ \E body \in RegistryBodies : PushResolve(body)
  \/ PushWrite
  \/ \E m \in MachineIds : WriteSnapshot(m)
  \/ run_cleanup("none")
  \/ \E l \in 1..MaxLoops, m \in MachineIds : TaskSettle(l, m, "good")
  \/ \E l \in 1..MaxLoops : TickEnd(l)
  \/ \E l \in 1..MaxLoops : LoopWake(l, TRUE)

SpecRegistry == Init /\ [][NextRegistry]_vars

\* C14: a push whose resolved machine is deleted before its writes ends
\* with a not-found result and stores no snapshot.
\* (Stated as the claim states it; the handler has no such answer on that
\* path and ends with 500.)
C14_DeletedTargetNotFound ==
  [][(pushPending # NoPending /\ pushPending' = NoPending
      /\ pushPending.t \notin DOMAIN machines)
       => /\ lastPush'.status = 404
          /\ snapshots' = snapshots]_vars

\* C15: every snapshot in the store is a snapshot of a registered machine.
C15_SnapshotsHaveMachine ==
  \A s \in snapshots : s.machine_id \in DOMAIN machines

\* machine 1 was deleted while it had a snapshot, which went with it: an id
\* that was given out is not in the table and no retention cycle ran; a
\* snapshot of the other machine is still there
C15_Witness ==
  /\ 1 \notin DOMAIN machines
  /\ ~lastCleanup.ran
  /\ Cardinality(snapshots) < nextSnapshotId - 1
  /\ \E s \in snapshots : s.machine_id = 2

(***************************************************************************)
(* The retention service as a background loop                              *)
(*                                                                         *)
(* startup_event schedules start_cleanup_service(); the loop task runs a   *)
(* cycle, sleeps, and runs the next one.  A cycle, and a manual            *)
(* run_cleanup_now(), contain no await: each is one step.                  *)
(***************************************************************************)
\* cleanup_interval_hours of the service get_cleanup_service() constructs
cleanup_interval_hours == 6
\* the sleep of _cleanup_loop after an exception reached it, in seconds
RecoveryDelay == 300

\* what the two policies may delete from the table as it stands, the age
\* policy on what the count policy left; fail names the policy that raises
PolicyOutcomes(fail) ==
  { [by_count |-> byCount, by_age |-> AgeDeleted(snapshots \ byCount, fail)] :
      byCount \in IF fail = "count" THEN {{}}
                  ELSE cleanup_snapshots_by_count(DOMAIN machines, snapshots,
                                                  MaxRecordsPerMachine) }

\* CleanupService.start, scheduled once by startup_event
start_cleanup_service ==
  /\ app = "up"
  /\ task = NoTask
  /\ ~is_running
  /\ is_running' = TRUE
  /\ task' = [at |-> "cycle", delay |-> 0]
  /\ UNCHANGED <<storeVars, now, app, pollVars, pushVars,
                 cleanup_old_records_days, lastCleanup, written, lastManual,
                 normVars>>

\* the sleep that follows a cycle of _cleanup_loop: _run_cleanup catches
\* what its policies raise and returns, so the loop sleeps the interval;
\* the loop's own handler sleeps RecoveryDelay and is reached only by an
\* exception that leaves _run_cleanup (escapes: db.rollback() or db.close()
\* raised)
SleepAfterCycle(fail, escapes) ==
  IF escapes THEN RecoveryDelay ELSE cleanup_interval_hours * 3600

\* one iteration of _cleanup_loop up to its sleep
cleanup_loop(fail, escapes) ==
  /\ task.at = "cycle"
  /\ is_running
  /\ fail = "age" => cleanup_old_records_days # NoAgeCutoff
  /\ \E o \in PolicyOutcomes(fail) :
       /\ snapshots' = (snapshots \ o.by_count) \ o.by_age
       /\ lastCleanup' = [ran |-> TRUE, ok |-> fail = "none", at |-> now,
                          by_count |-> o.by_count, by_age |-> o.by_age,
                          repeat |-> lastCleanup.ran /\ lastCleanup.ok
                                       /\ ~written]
  /\ written' = (written /\ fail # "none")
  /\ task' = [at |-> "sleep", delay |-> SleepAfterCycle(fail, escapes)]
  /\ UNCHANGED <<machines, nextSnapshotId, now, app, pollVars, pushVars,
                 cleanup_old_records_days, is_running, lastManual, normVars>>

\* the sleep of _cleanup_loop ends and "while self.is_running" is evaluated
CleanupWake ==
  /\ task.at = "sleep"
  /\ task' = [at |-> IF is_running THEN "cycle" ELSE "done", delay |-> 0]
  /\ UNCHANGED <<storeVars, now, app, pollVars, pushVars,
                 cleanup_old_records_days, lastCleanup, written, is_running,
                 lastManual, normVars>>

\* a run_cleanup_now() that sums the count policy only
ManualResults_CountOnly(byCount, byAge) ==
  [deleted_by_count |-> Cardinality(byCount),
   deleted_by_age |-> Cardinality(byAge),
   total_deleted |-> Cardinality(byCount)]

\* the dict run_cleanup_now returns when the policies deleted the rows
\* byCount and byAge
ManualResults(byCount, byAge) ==
  [deleted_by_count |-> Cardinality(byCount),
   deleted_by_age |-> Cardinality(byAge),
   total_deleted |-> Cardinality(byCount) + Cardinality(byAge)]

\* CleanupService.run_cleanup_now: the count policy, then the age policy if
\* it is configured; an exception is rolled back and raised to the caller
run_cleanup_now(fail) ==
  /\ lastManual.n < MaxManualRuns
  /\ fail = "age" => cleanup_old_records_days # NoAgeCutoff
  /\ \E o \in PolicyOutcomes(fail) :
       /\ snapshots' = (snapshots \ o.by_count) \ o.by_age
       /\ lastManual' = [n |-> lastManual.n + 1, raised |-> fail # "none",
                         results |-> IF fail = "none"
                                     THEN ManualResults(o.by_count, o.by_age)
                                     ELSE ManualResults({}, {})]
  /\ UNCHANGED <<machines, nextSnapshotId, now, app, pollVars, pushVars,
                 cleanup_old_records_days, lastCleanup, written, is_running,
                 task, normVars>>

NextCleanup ==
  \/ startup_event(TRUE)
  \/ start_cleanup_service
  \/ \E fail \in {"none", "count", "age"}, escapes \in BOOLEAN :
       cleanup_loop(fail, escapes)
  \/ CleanupWake
  \/ \E fail \in {"none", "count", "age"} : run_cleanup_now(fail)
  \/ \E m \in MachineIds : WriteSnapshot(m)
  \/ AdvanceClock

\* the service constructed without an age cutoff, as get_cleanup_service()
\* does, or with one of a day
InitCleanup ==
  /\ InitBase
  /\ cleanup_old_records_days \in {NoAgeCutoff, 1}

SpecCleanup == InitCleanup /\ [][NextCleanup]_vars

\* C16: a cycle in which a policy raised is followed by the recovery delay,
\* not by the cleanup interval, and the service stays running.
\* (Stated as the claim states it; the loop sleeps the interval.)
C16_FailedCycleShortDelay ==
  [][(task.at = "cycle" /\ task'.at # "cycle" /\ ~lastCleanup'.ok)
       => /\ task'.at = "sleep"
          /\ task'.delay = RecoveryDelay
          /\ is_running']_vars

\* a manual run happened in this step
ManualStep == lastManual' # lastManual

\* how many rows of the machines ms are over the cap in the table
RECURSIVE OverCap(_)
OverCap(ms) ==
  IF ms = {} THEN 0
  ELSE LET m == CHOOSE x \in ms : TRUE
           n == Cardinality(SnapshotsOf(m, snapshots))
       IN (IF n > MaxRecordsPerMachine THEN n - MaxRecordsPerMachine ELSE 0)
            + OverCap(ms \ {m})

\* C17: a manual run that returns reports the number of rows over the cap as
\* deleted_by_count, the other rows it removed as deleted_by_age and all
\* the rows it removed as total_deleted, within its own step, and leaves
\* is_running, the loop task and its pending sleep as they were.
C17_ManualRunFrame ==
  [][ManualStep
       => /\ is_running' = is_running
          /\ task' = task
          /\ now' = now
          /\ snapshots' \subseteq snapshots
          /\ ~lastManual'.raised
               => /\ lastManual'.results.deleted_by_count
                       = OverCap(DOMAIN machines)
                  /\ lastManual'.results.deleted_by_age
                       = Cardinality(snapshots \ snapshots')
                           - OverCap(DOMAIN machines)
                  /\ lastManual'.results.total_deleted
                       = Cardinality(snapshots \ snapshots')]_vars

\* a manual run returned while the loop slept between two cycles, after
\* deleting by count and by age
C17_Witness ==
  /\ lastManual.n > 0
  /\ ~lastManual.raised
  /\ lastManual.results.deleted_by_count > 0
  /\ lastManual.results.deleted_by_age > 0
  /\ lastManual.results.total_deleted
       = lastManual.results.deleted_by_count
           + lastManual.results.deleted_by_age
  /\ is_running
  /\ task.at = "sleep"
  /\ lastCleanup.ran

(***************************************************************************)
(* The whole program                                                       *)
(***************************************************************************)
(***************************************************************************)
(* The application's shutdown                                              *)
(*                                                                         *)
(* shutdown_event calls stop_glances_polling(), a plain function, and      *)
(* stop_cleanup_service(), a coroutine function, without awaiting it: the  *)
(* call makes a coroutine object that no one runs, so no statement of      *)
(* CleanupService.stop is executed.                                        *)
(***************************************************************************)
\* main.shutdown_event
shutdown_event ==
  /\ app = "up"
  /\ app' = "down"
  /\ running' = FALSE
  /\ ticks' = [l \in DOMAIN ticks |->
                 IF loops[l] = "tick"
                 THEN [ticks[l] EXCEPT !.stopped = TRUE] ELSE ticks[l]]
  /\ UNCHANGED <<storeVars, now, loops, lastAdmin, pushVars, cleanupVars,
                 normVars>>

\* The application from startup to shutdown with its two loops.  Every
\* fetch ends (ClientTimeout), gather() returns, every sleep returns, and a
\* retention cycle that is due runs.
SpecShutdown ==
  /\ Init
  /\ [][\/ startup_event(TRUE)
        \/ start_cleanup_service
        \/ cleanup_loop("none", FALSE)
        \/ CleanupWake
        \/ \E l \in 1..MaxLoops, m \in MachineIds, resp \in {"good", "timeout"} :
             TaskSettle(l, m, resp)
        \/ \E l \in 1..MaxLoops : TickEnd(l)
        \/ \E l \in 1..MaxLoops : LoopWake(l, TRUE)
        \/ shutdown_event]_vars
  /\ FairPoll
  /\ WF_vars(CleanupWake)
  /\ WF_vars(cleanup_loop("none", FALSE))

\* C30: once the shutdown event has run, both loops eventually stop: the
\* poll scheduler's flag is cleared and its loop has ended, and the
\* retention service's stop has run (is_running cleared, the loop task
\* neither in a cycle nor asleep).
\* (Stated as the claim states it; the retention service's stop is never
\* run.)
C30_ShutdownStopsLoops ==
  (app = "down")
    ~> (/\ ~running
        /\ \A l \in 1..MaxLoops : loops[l] = "none"
        /\ ~is_running
        /\ task.at \notin {"cycle", "sleep"})

Next ==
  NextNorm \/ NextPoll \/ NextPush \/ NextRetention \/ NextRegistry
    \/ NextCleanup \/ NextPollFaults
    \/ \E done \in SUBSET MachineIds : CountInterrupted(done)
    \/ shutdown_event

Spec == Init /\ [][Next]_vars

=============================================================================
